---------------------------- MODULE Spec2Model ----------------------------
(***************************************************************************)
(* ComplicatedReaderWriterTest.c: a writer thread and a reader thread race *)
(* on the global array vals; the reader periodically runs checkVals, which *)
(* counts per slot how often the observed value changed and exits the      *)
(* process when a slot changed more than once.  main runs TEST_ITERS       *)
(* trials: clearState, then test (create, pin, settle, release, join).     *)
(*                                                                         *)
(* One action is one step of one thread that holds at most one access to   *)
(* the raced array vals; accesses to data only one thread touches are      *)
(* folded into the step they belong to.  usleep is no synchronisation and  *)
(* is a step without effect.  In the program's specifications the outputs  *)
(* of the Mersenne Twister streams are drawn nondeterministically from     *)
(* their range; the generator itself, with its 32-bit words, and           *)
(* clearState's use of it are specified apart (SpecRandom, SpecClear).     *)
(***************************************************************************)
EXTENDS Integers, Sequences, FiniteSets

\* Program constants, scaled down from the #defines of the source.
TEST_ITERS == 2
VALS_SIZE == 3
READER_ITERS == 3
WRITER_ITERS == 2
CHECK_EACH_ITER == 2
CHECK_FIRST_VALS == VALS_SIZE

Idx == 0 .. VALS_SIZE - 1
\* The ints stored in vals.  Within one trial a slot holds at most two values,
\* the one clearState stored and the one the writer stored, so two values
\* give every pattern of equal and different contents a slot can show.
Values == {0, 1}
\* getRandomIndex: nextInt(myRandom) % VALS_SIZE
RandomIndices == 0 .. VALS_SIZE - 1

VARIABLES
  iter,          \* main's loop counter, the argument of clearState and test
  pcMain,        \* position of the main thread
  pcR,           \* position of the reader thread ("none": no such thread)
  pcW,           \* position of the writer thread
  vals,          \* int vals[VALS_SIZE]
  vals0,         \* what clearState stored in vals in this trial
  lastValsScan,  \* int lastValsScan[VALS_SIZE]
  changedTimes,  \* int changedTimes[VALS_SIZE]
  wasRead,       \* bool wasRead[VALS_SIZE]
  wasWritten,    \* bool wasWritten[VALS_SIZE]
  savedRead,     \* int savedRead
  sema,          \* the three sem_t: initialised or not, value, posts and waits
  rI,            \* doReads: i of the act loop
  rK,            \* doReads: i of the preparation loop; checkVals: i
  readIndex,     \* doReads: readIndex
  read,          \* doReads: read
  v,             \* checkVals: v
  wI,            \* doWrites: i of the act loop
  writeIndex,    \* doWrites: writeIndex
  writes,        \* per slot, the assignments to vals[i] since clearState
  fresh,         \* the slots assigned since the reader's current act iteration began
  reads,         \* the values of `read' in the act loop's iterations of this trial
  passes,        \* the calls of checkVals made by the act loop in this trial
  passClean,     \* in checkVals: no store to vals since the call, every load current
  seen,          \* the slots whose stored value the reader has loaded after its store
  prng,          \* the generator's specifications: the MyRandom objects, the call of
                 \* clearState under way, the calls returned
  acc,           \* accesses to globals not yet ordered before the other threads
  err,           \* the lines written to stderr since the trial's clearState
  exitStatus     \* -1 while the process runs, then its exit code

vars == << iter, pcMain, pcR, pcW, vals, vals0, lastValsScan, changedTimes,
           wasRead, wasWritten, savedRead, sema, rI, rK, readIndex, read, v,
           wI, writeIndex, writes, fresh, reads, passes, passClean, seen, prng, acc,
           err,
           exitStatus >>

mainVars == << iter, pcMain >>
readerVars == << pcR, lastValsScan, changedTimes, wasRead, savedRead, rI, rK,
                 readIndex, read, v, reads, passes >>
writerVars == << pcW, wasWritten, wI, writeIndex >>

\* savedRead = (read + read - 1) + (savedRead - 1 + read) * read;
\* With these Values and READER_ITERS folds the result stays far
\* inside the range of int, so the arithmetic is that of the integers.
Fold(a, r) == (r + r - 1) + (a - 1 + r) * r

SemNames == {"startReaderSema", "startWriterSema", "endSema"}
NoSem == [init |-> FALSE, val |-> 0, posts |-> 0, waits |-> 0]
\* sem_init(&s, 0, 1)
SemInit_One(s) == [init |-> TRUE, val |-> 1, posts |-> 0, waits |-> 0]

\* sem_init(&s, 0, 0)
SemInit(s) == [init |-> TRUE, val |-> 0, posts |-> 0, waits |-> 0]

\* sem_post(&s)
\* SemPost that loses the wake-up
SemPost_Lost(s) == [s EXCEPT !.posts = @ + 1]

SemPost(s) == [s EXCEPT !.val = @ + 1, !.posts = @ + 1]

\* sem_wait that never blocks
SemCanWait_Always(s) == s.val >= 0

\* sem_wait(&s) can return once the value is positive, and decrements it
SemCanWait(s) == s.val > 0

SemWait(s) == [s EXCEPT !.val = @ - 1, !.waits = @ + 1]

\* sem_destroy(&s)
SemDestroy(s) == [s EXCEPT !.init = FALSE]

\* An access to a global by a thread; a worker's accesses are ordered before
\* main's once main has joined it, and main's are ordered before a worker's
\* when they precede its creation.
Access(x, t, k) == << x, t, k >>
Workers == {"reader", "writer"}
Alive == {t \in Workers : (t = "reader" /\ pcR # "none") \/ (t = "writer" /\ pcW # "none")}
Log(t, as) == IF t = "main" /\ Alive = {} THEN acc ELSE acc \cup as
Joined(t) == {a \in acc : a[2] # t /\ (a[2] = "main" => Alive # {t})}

\* A load of vals[i].  Sequentially consistent ("sc"), it yields the value
\* stored last; raced with the writer's plain store ("racy") it may as well
\* yield the value the slot held before that store; with memory coherent per
\* location ("coherent") it may yield the older value only until the reader
\* has loaded the newer one.
Load(i, mem) ==
  CASE mem = "racy" -> {vals[i], vals0[i]}
    [] mem = "sc" -> {vals[i]}
    [] mem = "coherent" -> IF i \in seen THEN {vals[i]} ELSE {vals[i], vals0[i]}

\* See that records nothing: loads of a slot may go back to the older value
See_Forgets(i, x, mem) == seen

\* the slots whose store the reader has observed, after a load of slot i that
\* returned x; kept only for the memory whose loads depend on it
See(i, x, mem) == IF mem = "coherent" /\ x # vals0[i] THEN seen \cup {i} ELSE seen

\* the generator's specifications: no MyRandom exists, clearState is not
\* running and has not been called
NoRandom == [gen |-> << >>, call |-> << >>, done |-> << >>]

Init ==
  /\ iter = 0
  /\ pcMain = "clear"
  /\ pcR = "none"
  /\ pcW = "none"
  /\ vals = [i \in Idx |-> 0]
  /\ vals0 = [i \in Idx |-> 0]
  /\ lastValsScan = [i \in Idx |-> 0]
  /\ changedTimes = [i \in Idx |-> 0]
  /\ wasRead = [i \in Idx |-> FALSE]
  /\ wasWritten = [i \in Idx |-> FALSE]
  /\ savedRead = 0
  /\ sema = [s \in SemNames |-> NoSem]
  /\ rI = 0
  /\ rK = 0
  /\ readIndex = 0
  /\ read = 0
  /\ v = 0
  /\ wI = 0
  /\ writeIndex = 0
  /\ writes = [i \in Idx |-> 0]
  /\ fresh = {}
  /\ reads = << >>
  /\ passes = 0
  /\ passClean = TRUE
  /\ seen = {}
  /\ prng = NoRandom
  /\ acc = {}
  /\ err = << >>
  /\ exitStatus = -1

Running == exitStatus = -1

----------------------------------------------------------------------------
(* main and test *)

\* for (iter = 0; iter < TEST_ITERS; ++iter) clearState(iter): every slot of
\* vals is assigned the next output of the trial's generator.
ClearState ==
  /\ Running
  /\ pcMain = "clear"
  /\ iter < TEST_ITERS
  /\ \E f \in [Idx -> Values] : vals' = f /\ vals0' = f
  /\ writes' = [i \in Idx |-> 0]
  /\ fresh' = {}
  /\ seen' = {}
  /\ reads' = << >>
  /\ passes' = 0
  /\ acc' = Log("main", {Access("vals", "main", "w")})
  /\ err' = << >>
  /\ pcMain' = "init"
  /\ UNCHANGED << prng, iter, pcR, lastValsScan, changedTimes, wasRead, savedRead, rI, rK,
                  readIndex, read, v, writerVars, sema, passClean, exitStatus >>

\* the three sem_init calls of test
MainSemInit ==
  /\ Running
  /\ pcMain = "init"
  /\ sema' = [s \in SemNames |-> SemInit(sema[s])]
  /\ pcMain' = "createR"
  /\ UNCHANGED << prng, iter, readerVars, writerVars, vals, vals0, writes, fresh,
                  passClean, seen, acc, err, exitStatus >>

\* pthread_create(&reader, NULL, doReads, &iter)
MainCreateReader ==
  /\ Running
  /\ pcMain = "createR"
  /\ pcR' = "prep"
  /\ rK' = 0
  /\ pcMain' = "createW"
  /\ UNCHANGED << prng, iter, lastValsScan, changedTimes, wasRead, savedRead, rI,
                  readIndex, read, v, reads, passes, writerVars, vals, vals0, sema, writes,
                  fresh, passClean, seen, acc, err, exitStatus >>

\* pthread_create(&writer, NULL, doWrites, &iter)
MainCreateWriter ==
  /\ Running
  /\ pcMain = "createW"
  /\ pcW' = "prep"
  /\ pcMain' = "pin"
  /\ UNCHANGED << prng, iter, readerVars, wasWritten, wI, writeIndex, vals, vals0, sema,
                  writes, fresh, passClean, seen, acc, err, exitStatus >>

\* pthread_setaffinity_np(reader, ...); pthread_setaffinity_np(writer, ...);
\* usleep(PREPARATION_WAIT_MILLIS * 1000): none of them waits for a worker or
\* touches a global.
MainPinAndSettle ==
  /\ Running
  /\ pcMain = "pin"
  /\ pcMain' = "postR"
  /\ UNCHANGED << prng, iter, readerVars, writerVars, vals, vals0, sema, writes, fresh,
                  passClean, seen, acc, err, exitStatus >>

MainPost(from, s, to) ==
  /\ Running
  /\ pcMain = from
  /\ sema' = [sema EXCEPT ![s] = SemPost(@)]
  /\ pcMain' = to
  /\ UNCHANGED << prng, iter, readerVars, writerVars, vals, vals0, writes, fresh,
                  passClean, seen, acc, err, exitStatus >>

\* sem_post(&startReaderSema); sem_post(&startWriterSema);
MainPostReader == MainPost("postR", "startReaderSema", "postW")
MainPostWriter == MainPost("postW", "startWriterSema", "joinW")

\* pthread_join(writer, NULL) returns once the writer has returned
MainJoinWriter ==
  /\ Running
  /\ pcMain = "joinW"
  /\ pcW = "term"
  /\ pcW' = "none"
  /\ acc' = Joined("writer")
  /\ pcMain' = "joinR"
  /\ UNCHANGED << prng, iter, readerVars, wasWritten, wI, writeIndex, vals, vals0, sema,
                  writes, fresh, passClean, seen, err, exitStatus >>

\* pthread_join(reader) that does not wait for the reader to return
MainJoinReader_NoWait ==
  /\ Running
  /\ pcMain = "joinR"
  /\ pcR # "none"
  /\ pcR' = "none"
  /\ acc' = Joined("reader")
  /\ pcMain' = "waitE1"
  /\ UNCHANGED << prng, iter, lastValsScan, changedTimes, wasRead, savedRead, rI, rK,
                  readIndex, read, v, reads, passes, writerVars, vals, vals0, sema, writes,
                  fresh, passClean, seen, err, exitStatus >>

\* pthread_join(reader, NULL)
MainJoinReader ==
  /\ Running
  /\ pcMain = "joinR"
  /\ pcR = "term"
  /\ pcR' = "none"
  /\ acc' = Joined("reader")
  /\ pcMain' = "waitE1"
  /\ UNCHANGED << prng, iter, lastValsScan, changedTimes, wasRead, savedRead, rI, rK,
                  readIndex, read, v, reads, passes, writerVars, vals, vals0, sema, writes,
                  fresh, passClean, seen, err, exitStatus >>

MainWaitEnd(from, to) ==
  /\ Running
  /\ pcMain = from
  /\ SemCanWait(sema["endSema"])
  /\ sema' = [sema EXCEPT !["endSema"] = SemWait(@)]
  /\ pcMain' = to
  /\ UNCHANGED << prng, iter, readerVars, writerVars, vals, vals0, writes, fresh,
                  passClean, seen, acc, err, exitStatus >>

\* sem_wait(&endSema); sem_wait(&endSema);
MainWaitEnd1 == MainWaitEnd("waitE1", "waitE2")
MainWaitEnd2 == MainWaitEnd("waitE2", "destroy")

\* the three sem_destroy calls
MainSemDestroy ==
  /\ Running
  /\ pcMain = "destroy"
  /\ sema' = [s \in SemNames |-> SemDestroy(sema[s])]
  /\ pcMain' = "print"
  /\ UNCHANGED << prng, iter, readerVars, writerVars, vals, vals0, writes, fresh,
                  passClean, seen, acc, err, exitStatus >>

\* fprintf(stderr, "Iteration %d finished (%d)\n", iter, savedRead); ++iter
MainPrint ==
  /\ Running
  /\ pcMain = "print"
  /\ err' = Append(err, << "Iteration finished", iter, savedRead >>)
  /\ acc' = Log("main", {Access("savedRead", "main", "r")})
  /\ iter' = iter + 1
  /\ pcMain' = "clear"
  /\ UNCHANGED << prng, readerVars, writerVars, vals, vals0, sema, writes, fresh,
                  passClean, seen, exitStatus >>

\* return 0 from main
MainReturn ==
  /\ Running
  /\ pcMain = "clear"
  /\ iter >= TEST_ITERS
  /\ pcMain' = "done"
  /\ exitStatus' = 0
  /\ UNCHANGED << prng, iter, readerVars, writerVars, vals, vals0, sema, writes, fresh,
                  passClean, seen, acc, err >>

----------------------------------------------------------------------------
(* doReads and checkVals *)

\* ReaderPrep without changedTimes[i] = 0
ReaderPrep_NoReset(mem) ==
  /\ Running
  /\ pcR = "prep"
  /\ rK < VALS_SIZE
  /\ \E x \in Load(rK, mem) :
       /\ lastValsScan' = [lastValsScan EXCEPT ![rK] = x]
       /\ seen' = See(rK, x, mem)
  /\ wasRead' = [wasRead EXCEPT ![rK] = FALSE]
  /\ changedTimes' = changedTimes
  /\ rK' = rK + 1
  /\ acc' = Log("reader", {Access("iter", "reader", "r"), Access("wasRead", "reader", "w"),
                           Access("lastValsScan", "reader", "w"),
                           Access("changedTimes", "reader", "w"),
                           Access("vals", "reader", "r")})
  /\ UNCHANGED << prng, mainVars, writerVars, pcR, savedRead, rI, readIndex, read, v,
                  reads, passes, vals, vals0, sema, writes, fresh, passClean, err,
                  exitStatus >>

\* one round of the preparation loop:
\* wasRead[i] = false; lastValsScan[i] = vals[i]; changedTimes[i] = 0;
ReaderPrep(mem) ==
  /\ Running
  /\ pcR = "prep"
  /\ rK < VALS_SIZE
  /\ \E x \in Load(rK, mem) :
       /\ lastValsScan' = [lastValsScan EXCEPT ![rK] = x]
       /\ seen' = See(rK, x, mem)
  /\ wasRead' = [wasRead EXCEPT ![rK] = FALSE]
  /\ changedTimes' = [changedTimes EXCEPT ![rK] = 0]
  /\ rK' = rK + 1
  /\ acc' = Log("reader", {Access("iter", "reader", "r"), Access("wasRead", "reader", "w"),
                           Access("lastValsScan", "reader", "w"),
                           Access("changedTimes", "reader", "w"),
                           Access("vals", "reader", "r")})
  /\ UNCHANGED << prng, mainVars, writerVars, pcR, savedRead, rI, readIndex, read, v,
                  reads, passes, vals, vals0, sema, writes, fresh, passClean, err,
                  exitStatus >>

\* ReaderSeed without savedRead = 0
ReaderSeed_KeepsSavedRead ==
  /\ Running
  /\ pcR = "prep"
  /\ rK >= VALS_SIZE
  /\ savedRead' = savedRead
  /\ reads' = << >>
  /\ passes' = 0
  /\ rK' = 0
  /\ pcR' = "wait"
  /\ acc' = Log("reader", {Access("savedRead", "reader", "w"),
                           Access("readRandom", "reader", "w")})
  /\ UNCHANGED << prng, mainVars, writerVars, lastValsScan, changedTimes, wasRead, rI,
                  readIndex, read, v, vals, vals0, sema, writes, fresh, passClean, seen,
                  err, exitStatus >>

\* savedRead = 0; MyRandom readRandom = initMyRandom(READ_RANDOM_START_SEED + iter);
ReaderSeed ==
  /\ Running
  /\ pcR = "prep"
  /\ rK >= VALS_SIZE
  /\ savedRead' = 0
  /\ reads' = << >>
  /\ passes' = 0
  /\ rK' = 0
  /\ pcR' = "wait"
  /\ acc' = Log("reader", {Access("savedRead", "reader", "w"),
                           Access("readRandom", "reader", "w")})
  /\ UNCHANGED << prng, mainVars, writerVars, lastValsScan, changedTimes, wasRead, rI,
                  readIndex, read, v, vals, vals0, sema, writes, fresh, passClean, seen,
                  err, exitStatus >>

\* sem_wait(&startReaderSema)
ReaderWait ==
  /\ Running
  /\ pcR = "wait"
  /\ SemCanWait(sema["startReaderSema"])
  /\ sema' = [sema EXCEPT !["startReaderSema"] = SemWait(@)]
  /\ rI' = 0
  /\ pcR' = "loop"
  /\ UNCHANGED << prng, mainVars, writerVars, lastValsScan, changedTimes, wasRead,
                  savedRead, rK, readIndex, read, v, reads, passes, vals, vals0, writes,
                  fresh, passClean, seen, acc, err, exitStatus >>

\* One draw of the act loop's index selection that hits an index already read:
\* unsigned int readIndex = getRandomIndex(&readRandom);
\* while (wasRead[readIndex]) { readIndex = getRandomIndex(&readRandom); }
ReaderResample ==
  /\ Running
  /\ pcR = "loop"
  /\ rI < READER_ITERS
  /\ \E x \in RandomIndices : wasRead[x] /\ readIndex' = x
  /\ acc' = Log("reader", {Access("wasRead", "reader", "r"),
                           Access("readRandom", "reader", "w")})
  /\ UNCHANGED << prng, mainVars, writerVars, pcR, lastValsScan, changedTimes, wasRead,
                  savedRead, rI, rK, read, v, reads, passes, vals, vals0, sema, writes,
                  fresh, passClean, seen, err, exitStatus >>

\* ReaderRead without the test of wasRead[readIndex]
ReaderRead_NoTest(mem) ==
  /\ Running
  /\ pcR = "loop"
  /\ rI < READER_ITERS
  /\ \E x \in RandomIndices :
       /\ wasRead' = [wasRead EXCEPT ![x] = TRUE]
       /\ \E y \in Load(x, mem) :
            /\ savedRead' = Fold(savedRead, y)
            /\ reads' = Append(reads, y)
            /\ seen' = See(x, y, mem)
            /\ IF rI % CHECK_EACH_ITER = 0
                 THEN /\ pcR' = "check" /\ rK' = 0 /\ rI' = rI
                      /\ readIndex' = x /\ read' = y /\ fresh' = fresh
                      /\ passes' = passes + 1
                 ELSE /\ pcR' = "loop" /\ rK' = rK /\ rI' = rI + 1
                      /\ readIndex' = 0 /\ read' = 0 /\ fresh' = {}
                      /\ passes' = passes
  /\ passClean' = TRUE
  /\ acc' = Log("reader", {Access("wasRead", "reader", "r"), Access("wasRead", "reader", "w"),
                           Access("readRandom", "reader", "w"),
                           Access("vals", "reader", "r"), Access("savedRead", "reader", "r"),
                           Access("savedRead", "reader", "w")})
  /\ UNCHANGED << prng, mainVars, writerVars, lastValsScan, changedTimes, v, vals, vals0,
                  sema, writes, err, exitStatus >>

\* ReaderRead that calls checkVals in every iteration
ReaderRead_ChecksAlways(mem) ==
  /\ Running
  /\ pcR = "loop"
  /\ rI < READER_ITERS
  /\ \E x \in RandomIndices :
       /\ ~wasRead[x]
       /\ wasRead' = [wasRead EXCEPT ![x] = TRUE]
       /\ \E y \in Load(x, mem) :
            /\ savedRead' = Fold(savedRead, y)
            /\ reads' = Append(reads, y)
            /\ seen' = See(x, y, mem)
            /\ IF rI % 1 = 0
                 THEN /\ pcR' = "check" /\ rK' = 0 /\ rI' = rI
                      /\ readIndex' = x /\ read' = y /\ fresh' = fresh
                      /\ passes' = passes + 1
                 ELSE /\ pcR' = "loop" /\ rK' = rK /\ rI' = rI + 1
                      /\ readIndex' = 0 /\ read' = 0 /\ fresh' = {}
                      /\ passes' = passes
  /\ passClean' = TRUE
  /\ acc' = Log("reader", {Access("wasRead", "reader", "r"), Access("wasRead", "reader", "w"),
                           Access("readRandom", "reader", "w"),
                           Access("vals", "reader", "r"), Access("savedRead", "reader", "r"),
                           Access("savedRead", "reader", "w")})
  /\ UNCHANGED << prng, mainVars, writerVars, lastValsScan, changedTimes, v, vals, vals0,
                  sema, writes, err, exitStatus >>

\* The draw that leaves the selection loop, and the rest of the iteration:
\* wasRead[readIndex] = true; int read = vals[readIndex]; savedRead = ...;
\* if (i % CHECK_EACH_ITER == 0) checkVals(); usleep(...); ++i
ReaderRead(mem) ==
  /\ Running
  /\ pcR = "loop"
  /\ rI < READER_ITERS
  /\ \E x \in RandomIndices :
       /\ ~wasRead[x]
       /\ wasRead' = [wasRead EXCEPT ![x] = TRUE]
       /\ \E y \in Load(x, mem) :
            /\ savedRead' = Fold(savedRead, y)
            /\ reads' = Append(reads, y)
            /\ seen' = See(x, y, mem)
            /\ IF rI % CHECK_EACH_ITER = 0
                 THEN /\ pcR' = "check" /\ rK' = 0 /\ rI' = rI
                      /\ readIndex' = x /\ read' = y /\ fresh' = fresh
                      /\ passes' = passes + 1
                 ELSE /\ pcR' = "loop" /\ rK' = rK /\ rI' = rI + 1
                      /\ readIndex' = 0 /\ read' = 0 /\ fresh' = {}
                      /\ passes' = passes
  /\ passClean' = TRUE
  /\ acc' = Log("reader", {Access("wasRead", "reader", "r"), Access("wasRead", "reader", "w"),
                           Access("readRandom", "reader", "w"),
                           Access("vals", "reader", "r"), Access("savedRead", "reader", "r"),
                           Access("savedRead", "reader", "w")})
  /\ UNCHANGED << prng, mainVars, writerVars, lastValsScan, changedTimes, v, vals, vals0,
                  sema, writes, err, exitStatus >>

\* Anomaly with the threshold off by one
Anomaly_Late(n) == n > 2

\* checkVals, one round of its loop:
\* int v = vals[i]; if (v != lastValsScan[i]) { ++changedTimes[i];
\*   if (changedTimes[i] > 1) { fatal } lastValsScan[i] = v; }
\* After the last round checkVals returns into the act loop of doReads.
Anomaly(n) == n > 1

\* ++i of checkVals; after the last slot checkVals returns and the iteration of
\* the act loop that called it ends (usleep, ++i), its locals with it.
CheckValsNext ==
  IF rK + 1 < CHECK_FIRST_VALS
    THEN rK' = rK + 1 /\ UNCHANGED << pcR, rI, readIndex, read, fresh >>
    ELSE /\ pcR' = "loop" /\ rK' = 0 /\ rI' = rI + 1
         /\ readIndex' = 0 /\ read' = 0 /\ fresh' = {}

\* checkVals without lastValsScan[i] = v
CheckVals_KeepsSnapshot(mem) ==
  /\ Running
  /\ pcR = "check"
  /\ rK < CHECK_FIRST_VALS
  /\ \E x \in Load(rK, mem) :
       /\ v' = x
       /\ seen' = See(rK, x, mem)
       /\ IF x # lastValsScan[rK]
            THEN /\ changedTimes' = [changedTimes EXCEPT ![rK] = @ + 1]
                 /\ IF Anomaly(changedTimes[rK] + 1)
                      THEN /\ pcR' = "fatal"
                           /\ UNCHANGED << lastValsScan, rK, rI, readIndex, read, fresh >>
                      ELSE /\ lastValsScan' = lastValsScan
                           /\ CheckValsNext
            ELSE /\ UNCHANGED << changedTimes, lastValsScan >>
                 /\ CheckValsNext
       /\ passClean' = IF pcR' = "check" THEN passClean /\ x = vals[rK] ELSE TRUE
  /\ acc' = Log("reader", {Access("vals", "reader", "r"), Access("lastValsScan", "reader", "r"),
                           Access("lastValsScan", "reader", "w"),
                           Access("changedTimes", "reader", "w")})
  /\ UNCHANGED << prng, mainVars, writerVars, wasRead, savedRead, vals, vals0, sema,
                  writes, err, exitStatus, reads, passes >>

CheckVals(mem) ==
  /\ Running
  /\ pcR = "check"
  /\ rK < CHECK_FIRST_VALS
  /\ \E x \in Load(rK, mem) :
       /\ v' = x
       /\ seen' = See(rK, x, mem)
       /\ IF x # lastValsScan[rK]
            THEN /\ changedTimes' = [changedTimes EXCEPT ![rK] = @ + 1]
                 /\ IF Anomaly(changedTimes[rK] + 1)
                      THEN /\ pcR' = "fatal"
                           /\ UNCHANGED << lastValsScan, rK, rI, readIndex, read, fresh >>
                      ELSE /\ lastValsScan' = [lastValsScan EXCEPT ![rK] = x]
                           /\ CheckValsNext
            ELSE /\ UNCHANGED << changedTimes, lastValsScan >>
                 /\ CheckValsNext
       /\ passClean' = IF pcR' = "check" THEN passClean /\ x = vals[rK] ELSE TRUE
  /\ acc' = Log("reader", {Access("vals", "reader", "r"), Access("lastValsScan", "reader", "r"),
                           Access("lastValsScan", "reader", "w"),
                           Access("changedTimes", "reader", "w")})
  /\ UNCHANGED << prng, mainVars, writerVars, wasRead, savedRead, vals, vals0, sema,
                  writes, err, exitStatus, reads, passes >>

\* checkVals compiled with `v' rematerialized: the comparison
\* v != lastValsScan[i] uses one load of vals[i] ...
CheckValsCompare(mem) ==
  /\ Running
  /\ pcR = "check"
  /\ rK < CHECK_FIRST_VALS
  /\ \E x \in Load(rK, mem) :
       /\ v' = x
       /\ seen' = See(rK, x, mem)
       /\ IF x # lastValsScan[rK]
            THEN /\ changedTimes' = [changedTimes EXCEPT ![rK] = @ + 1]
                 /\ pcR' = IF Anomaly(changedTimes[rK] + 1) THEN "fatal" ELSE "reload"
                 /\ UNCHANGED << rK, rI, readIndex, read, fresh >>
            ELSE /\ UNCHANGED changedTimes
                 /\ CheckValsNext
       /\ passClean' = IF pcR' = "loop" THEN TRUE ELSE passClean /\ x = vals[rK]
  /\ acc' = Log("reader", {Access("vals", "reader", "r"), Access("lastValsScan", "reader", "r"),
                           Access("changedTimes", "reader", "w")})
  /\ UNCHANGED << prng, mainVars, writerVars, lastValsScan, wasRead, savedRead, reads, passes,
                  vals, vals0, sema, writes, err, exitStatus >>

\* ... and the update lastValsScan[i] = v uses a second load of vals[i].
CheckValsReload(mem) ==
  /\ Running
  /\ pcR = "reload"
  /\ \E y \in Load(rK, mem) :
       /\ v' = y
       /\ seen' = See(rK, y, mem)
       /\ lastValsScan' = [lastValsScan EXCEPT ![rK] = y]
       /\ passClean' = IF rK + 1 < CHECK_FIRST_VALS THEN passClean /\ y = vals[rK] ELSE TRUE
  /\ IF rK + 1 < CHECK_FIRST_VALS
       THEN pcR' = "check" /\ rK' = rK + 1 /\ UNCHANGED << rI, readIndex, read, fresh >>
       ELSE /\ pcR' = "loop" /\ rK' = 0 /\ rI' = rI + 1
            /\ readIndex' = 0 /\ read' = 0 /\ fresh' = {}
  /\ acc' = Log("reader", {Access("vals", "reader", "r"), Access("lastValsScan", "reader", "w")})
  /\ UNCHANGED << prng, mainVars, writerVars, changedTimes, wasRead, savedRead, reads, passes,
                  vals, vals0, sema, writes, err, exitStatus >>

\* Fatal with exit(1)
Fatal_ExitCode1 ==
  /\ Running
  /\ pcR = "fatal"
  /\ err' = Append(err, << "UB was caught!" >>)
  /\ exitStatus' = 1
  /\ UNCHANGED << prng, mainVars, readerVars, writerVars, vals, vals0, sema, writes, fresh,
                  passClean, seen, acc >>

\* fprintf(stderr, "\nUB was caught!\n"); exit(0);
Fatal ==
  /\ Running
  /\ pcR = "fatal"
  /\ err' = Append(err, << "UB was caught!" >>)
  /\ exitStatus' = 0
  /\ UNCHANGED << prng, mainVars, readerVars, writerVars, vals, vals0, sema, writes, fresh,
                  passClean, seen, acc >>

\* fprintf(stderr, "Reader has finished\n"); sem_post(&endSema); return NULL;
ReaderFinish ==
  /\ Running
  /\ pcR = "loop"
  /\ rI >= READER_ITERS
  /\ err' = Append(err, << "Reader has finished" >>)
  /\ sema' = [sema EXCEPT !["endSema"] = SemPost(@)]
  /\ pcR' = "term"
  /\ rI' = 0 /\ rK' = 0 /\ readIndex' = 0 /\ read' = 0 /\ v' = 0
  /\ UNCHANGED << prng, mainVars, writerVars, lastValsScan, changedTimes, wasRead,
                  savedRead, vals, vals0, writes, fresh, passClean, seen, acc, exitStatus,
                  reads, passes >>

----------------------------------------------------------------------------
(* doWrites *)

\* WriterPrep that clears wasRead beside wasWritten
WriterPrep_ClearsWasRead ==
  /\ Running
  /\ pcW = "prep"
  /\ wasWritten' = [i \in Idx |-> FALSE]
  /\ pcW' = "wait"
  /\ acc' = Log("writer", {Access("iter", "writer", "r"), Access("wasWritten", "writer", "w"),
                           Access("wasRead", "writer", "w"),
                           Access("writeRandom", "writer", "w")})
  /\ UNCHANGED << prng, mainVars, readerVars, wI, writeIndex, vals, vals0, sema, writes,
                  fresh, passClean, seen, err, exitStatus >>

\* for (i...) wasWritten[i] = false; MyRandom writeRandom = initMyRandom(...);
WriterPrep ==
  /\ Running
  /\ pcW = "prep"
  /\ wasWritten' = [i \in Idx |-> FALSE]
  /\ pcW' = "wait"
  /\ acc' = Log("writer", {Access("iter", "writer", "r"), Access("wasWritten", "writer", "w"),
                           Access("writeRandom", "writer", "w")})
  /\ UNCHANGED << prng, mainVars, readerVars, wI, writeIndex, vals, vals0, sema, writes,
                  fresh, passClean, seen, err, exitStatus >>

\* sem_wait(&startWriterSema)
WriterWait ==
  /\ Running
  /\ pcW = "wait"
  /\ SemCanWait(sema["startWriterSema"])
  /\ sema' = [sema EXCEPT !["startWriterSema"] = SemWait(@)]
  /\ wI' = 0
  /\ pcW' = "loop"
  /\ UNCHANGED << prng, mainVars, readerVars, wasWritten, writeIndex, vals, vals0, writes,
                  fresh, passClean, seen, acc, err, exitStatus >>

\* One draw of the act loop's index selection that hits an index already written:
\* unsigned int writeIndex = getRandomIndex(&writeRandom);
\* while (wasWritten[writeIndex]) { writeIndex = getRandomIndex(&writeRandom); }
WriterResample ==
  /\ Running
  /\ pcW = "loop"
  /\ wI < WRITER_ITERS
  /\ \E x \in RandomIndices : wasWritten[x] /\ writeIndex' = x
  /\ acc' = Log("writer", {Access("wasWritten", "writer", "r"),
                           Access("writeRandom", "writer", "w")})
  /\ UNCHANGED << prng, mainVars, readerVars, pcW, wasWritten, wI, vals, vals0, sema,
                  writes, fresh, passClean, seen, err, exitStatus >>

\* WriterWrite without the test of wasWritten[writeIndex]
WriterWrite_NoTest ==
  /\ Running
  /\ pcW = "loop"
  /\ wI < WRITER_ITERS
  /\ \E x \in RandomIndices :
       /\ writeIndex' = 0
       /\ wasWritten' = [wasWritten EXCEPT ![x] = TRUE]
       /\ \E y \in Values : vals' = [vals EXCEPT ![x] = y]
       /\ writes' = [writes EXCEPT ![x] = @ + 1]
       /\ fresh' = IF pcR = "loop" /\ rI < READER_ITERS THEN fresh \cup {x} ELSE fresh
  /\ passClean' = IF pcR = "check" THEN FALSE ELSE passClean
  /\ wI' = wI + 1
  /\ acc' = Log("writer", {Access("wasWritten", "writer", "r"),
                           Access("wasWritten", "writer", "w"),
                           Access("writeRandom", "writer", "w"),
                           Access("vals", "writer", "w")})
  /\ UNCHANGED << prng, mainVars, readerVars, pcW, vals0, sema, err, exitStatus, seen >>

\* The draw that leaves the selection loop, and the rest of the iteration:
\* wasWritten[writeIndex] = true; vals[writeIndex] = nextInt(&writeRandom);
\* usleep(...); ++i
WriterWrite ==
  /\ Running
  /\ pcW = "loop"
  /\ wI < WRITER_ITERS
  /\ \E x \in RandomIndices :
       /\ ~wasWritten[x]
       /\ writeIndex' = 0
       /\ wasWritten' = [wasWritten EXCEPT ![x] = TRUE]
       /\ \E y \in Values : vals' = [vals EXCEPT ![x] = y]
       /\ writes' = [writes EXCEPT ![x] = @ + 1]
       /\ fresh' = IF pcR = "loop" /\ rI < READER_ITERS THEN fresh \cup {x} ELSE fresh
  /\ passClean' = IF pcR = "check" THEN FALSE ELSE passClean
  /\ wI' = wI + 1
  /\ acc' = Log("writer", {Access("wasWritten", "writer", "r"),
                           Access("wasWritten", "writer", "w"),
                           Access("writeRandom", "writer", "w"),
                           Access("vals", "writer", "w")})
  /\ UNCHANGED << prng, mainVars, readerVars, pcW, vals0, sema, err, exitStatus, seen >>

\* WriterFinish without the fprintf
WriterFinish_Silent ==
  /\ Running
  /\ pcW = "loop"
  /\ wI >= WRITER_ITERS
  /\ sema' = [sema EXCEPT !["endSema"] = SemPost(@)]
  /\ pcW' = "term"
  /\ wI' = 0 /\ writeIndex' = 0
  /\ UNCHANGED << prng, mainVars, readerVars, wasWritten, vals, vals0, writes, fresh,
                  passClean, seen, acc, err, exitStatus >>

\* fprintf(stderr, "Writer has finished\n"); sem_post(&endSema); return NULL;
WriterFinish ==
  /\ Running
  /\ pcW = "loop"
  /\ wI >= WRITER_ITERS
  /\ err' = Append(err, << "Writer has finished" >>)
  /\ sema' = [sema EXCEPT !["endSema"] = SemPost(@)]
  /\ pcW' = "term"
  /\ wI' = 0 /\ writeIndex' = 0
  /\ UNCHANGED << prng, mainVars, readerVars, wasWritten, vals, vals0, writes, fresh,
                  passClean, seen, acc, exitStatus >>

----------------------------------------------------------------------------
(* the program *)

MainNext ==
  \/ ClearState \/ MainSemInit \/ MainCreateReader \/ MainCreateWriter
  \/ MainPinAndSettle
  \/ MainPostReader \/ MainPostWriter \/ MainJoinWriter \/ MainJoinReader
  \/ MainWaitEnd1 \/ MainWaitEnd2 \/ MainSemDestroy \/ MainPrint \/ MainReturn

WriterNext ==
  WriterPrep \/ WriterWait \/ WriterResample \/ WriterWrite \/ WriterFinish

ReaderNext(mem) ==
  \/ ReaderPrep(mem) \/ ReaderSeed \/ ReaderWait \/ ReaderResample
  \/ ReaderRead(mem) \/ CheckVals(mem) \/ ReaderFinish

\* The program as built: the loads of vals race with the writer's stores.
Next == MainNext \/ WriterNext \/ ReaderNext("racy") \/ Fatal

Spec == Init /\ [][Next]_vars

\* The program with every access to vals atomic and sequentially consistent.
NextSC == MainNext \/ WriterNext \/ ReaderNext("sc")

SpecSC == Init /\ [][NextSC]_vars

\* doReads with the rematerializing checkVals
ReaderNextRemat(mem) ==
  \/ ReaderPrep(mem) \/ ReaderSeed \/ ReaderWait \/ ReaderResample
  \/ ReaderRead(mem) \/ CheckValsCompare(mem) \/ CheckValsReload(mem) \/ ReaderFinish

\* The program built with the load of checkVals rematerialized, on a memory
\* that is coherent per location.
NextRemat == MainNext \/ WriterNext \/ ReaderNextRemat("coherent")

SpecRemat == Init /\ [][NextRemat]_vars

\* The scheduling the code relies on. The kernel runs every thread that can
\* take a step (main, pthread_create'd reader and writer); the index drawn by
\* getRandomIndex is a fair choice over 0 .. VALS_SIZE - 1, so a selection loop
\* that can draw an untouched index eventually draws one.
Fairness ==
  /\ WF_vars(MainNext)
  /\ WF_vars(WriterNext)
  /\ WF_vars(ReaderNext("sc"))
  /\ WF_vars(WriterWrite)
  /\ WF_vars(ReaderRead("sc"))

\* The sequentially consistent program, in which the detector never triggers,
\* under fair scheduling.
SpecFair == Init /\ [][NextSC]_vars /\ Fairness

----------------------------------------------------------------------------
(* The generator: MyRandom, nextInt, initMyRandom, and clearState's use of it *)

MT_IA == 3
MT_LEN == 5
MAIN_RANDOM_START_SEED == 65
READ_RANDOM_START_SEED == 6565
WRITE_RANDOM_START_SEED == 651

\* unsigned int: a word of 32 bits, bit 0 the least significant
WordBits == 32
Bits == 0 .. WordBits - 1
Pow2(k) == 2 ^ k

\* the word written as eight hexadecimal digits, the most significant first
Hex(ds) == [k \in Bits |-> (ds[8 - (k \div 4)] \div Pow2(k % 4)) % 2 = 1]

\* the unsigned int with the value n, for 0 <= n < 2^31
Word(n) == [k \in Bits |-> IF k < 31 THEN (n \div Pow2(k)) % 2 = 1 ELSE FALSE]

And(a, b) == [k \in Bits |-> a[k] /\ b[k]]
Or(a, b) == [k \in Bits |-> a[k] \/ b[k]]
Xor(a, b) == [k \in Bits |-> a[k] # b[k]]
Shr(a, n) == [k \in Bits |-> IF k + n < WordBits THEN a[k + n] ELSE FALSE]
Shl(a, n) == [k \in Bits |-> IF k >= n THEN a[k - n] ELSE FALSE]

RECURSIVE Low(_, _)
\* the value of the bits below bit k of the word a
Low(a, k) == IF k = 0 THEN 0 ELSE Low(a, k - 1) + (IF a[k - 1] THEN Pow2(k - 1) ELSE 0)

\* vals[i] = nextInt(...): the unsigned int converted to int (two's complement)
AsInt(a) == IF a[31] THEN (Low(a, 31) - Pow2(30)) - Pow2(30) ELSE Low(a, 31)

\* the words of the buffer
Slots == 0 .. MT_LEN - 1

\* nextInt: the indices
Index2(i) == IF i + 1 >= MT_LEN THEN 0 ELSE i + 1
IndexJ(i) == IF i + MT_IA >= MT_LEN THEN i + MT_IA - MT_LEN ELSE i + MT_IA

\* nextInt: the twist
Twist(g) ==
  LET i == g.m_index
      s == Or(And(g.m_buffer[i], Hex(<< 8, 0, 0, 0, 0, 0, 0, 0 >>)),
              And(g.m_buffer[Index2(i)], Hex(<< 7, 15, 15, 15, 15, 15, 15, 15 >>)))
  IN  Xor(Xor(g.m_buffer[IndexJ(i)], Shr(s, 1)),
          IF s[0] THEN Hex(<< 9, 9, 0, 8, 11, 0, 13, 15 >>) ELSE Word(0))

\* nextInt: the swizzle
Swizzle(r) ==
  LET r1 == Xor(r, Shr(r, 11))
      r2 == Xor(r1, And(Shl(r1, 7), Hex(<< 9, 13, 2, 12, 5, 6, 8, 0 >>)))
      r3 == Xor(r2, And(Shl(r2, 15), Hex(<< 14, 15, 12, 6, 0, 0, 0, 0 >>)))
  IN  Xor(r3, Shr(r3, 18))

\* nextInt(&g): the MyRandom after the call and the value returned
nextInt(g) ==
  LET r == Twist(g)
  IN  [random |-> [g EXCEPT !.m_buffer[g.m_index] = r, !.m_index = Index2(g.m_index)],
       value |-> Swizzle(r)]

\* initMyRandom that iterates the algorithm once more
WarmUp_OneMore == MT_LEN * 100 + 1

\* initMyRandom: the calls of nextInt that shuffle the buffer
WarmUp == MT_LEN * 100

\* MyRandom newRandom; an automatic object, not initialised: whatever the stack holds
Garbage ==
  {[m_buffer |-> [n \in Slots |-> Word(0)], m_index |-> 0],
   [m_buffer |-> [n \in Slots |-> Hex(<< 15, 15, 15, 15, 15, 15, 15, 15 >>)],
    m_index |-> MT_LEN + 1]}

Seeds == {MAIN_RANDOM_START_SEED, READ_RANDOM_START_SEED, WRITE_RANDOM_START_SEED}

\* the values drawn from a generator initMyRandom has returned
MaxDraws == 3
\* the calls of clearState
MaxCalls == 2

\* every variable of the program but vals
programVars ==
  << iter, pcMain, pcR, pcW, vals0, lastValsScan, changedTimes, wasRead, wasWritten,
     savedRead, sema, rI, rK, readIndex, read, v, wI, writeIndex, writes, fresh, reads,
     passes, passClean, seen, acc, err, exitStatus >>

\* two generators live at a time, as readRandom and writeRandom do
Ids == 1 .. 2

\* the generators
Randoms == 1 .. Len(prng.gen)

\* initMyRandom entered: MyRandom newRandom;
Declare(seed, g) ==
  [seed |-> seed, phase |-> "declared", m_buffer |-> g.m_buffer, m_index |-> g.m_index,
   drawn |-> 0, out |-> << >>]

\* MyRandom r = initMyRandom(seed), entered
NewRandom(seed) ==
  /\ prng.call = << >>
  /\ Len(prng.gen) < Cardinality(Ids)
  /\ \A k \in Randoms : prng.gen[k].phase = "ready"
  /\ \E g \in Garbage : prng' = [prng EXCEPT !.gen = Append(@, Declare(seed, g))]
  /\ UNCHANGED << programVars, vals >>

\* InitMyRandomFill that leaves the last word of the buffer as it was
Filled_ButLast(r) ==
  [r EXCEPT !.m_buffer = [n \in Slots |-> IF n < MT_LEN - 1 THEN Word(r.seed) ELSE @[n]],
            !.m_index = 0, !.phase = "warm"]

\* for (i...) newRandom.m_buffer[i] = seed; newRandom.m_index = 0;
Filled(r) ==
  [r EXCEPT !.m_buffer = [n \in Slots |-> Word(r.seed)], !.m_index = 0, !.phase = "warm"]

InitMyRandomFill(k) ==
  /\ k \in Randoms
  /\ prng.gen[k].phase = "declared"
  /\ prng' = [prng EXCEPT !.gen[k] = Filled(@)]
  /\ UNCHANGED << programVars, vals >>

\* the generator r after a call nextInt(&r)
Drawn(r) ==
  LET n == nextInt([m_buffer |-> r.m_buffer, m_index |-> r.m_index])
  IN  [r EXCEPT !.m_buffer = n.random.m_buffer, !.m_index = n.random.m_index]

\* for (i = 0; i < MT_LEN * 100; ++i) nextInt(&newRandom);
InitMyRandomDraw(k) ==
  /\ k \in Randoms
  /\ prng.gen[k].phase = "warm"
  /\ prng.gen[k].drawn < WarmUp
  /\ prng' = [prng EXCEPT !.gen[k] = [Drawn(@) EXCEPT !.drawn = @ + 1]]
  /\ UNCHANGED << programVars, vals >>

\* return newRandom;
InitMyRandomReturn(k) ==
  /\ k \in Randoms
  /\ prng.gen[k].phase = "warm"
  /\ prng.gen[k].drawn >= WarmUp
  /\ prng' = [prng EXCEPT !.gen[k].phase = "ready"]
  /\ UNCHANGED << programVars, vals >>

\* NextIntCall on a generator whose state all generators share
NextIntCall_Shared(k) ==
  /\ prng.call = << >>
  /\ k \in Randoms
  /\ prng.gen[k].phase = "ready"
  /\ Len(prng.gen[k].out) < MaxDraws
  /\ prng' = [prng EXCEPT !.gen =
                [n \in Randoms |->
                   IF n = k THEN [Drawn(@[n]) EXCEPT !.out = Append(@, nextInt(prng.gen[k]).value)]
                   ELSE IF @[n].phase = "ready" THEN Drawn(@[n]) ELSE @[n]]]
  /\ UNCHANGED << programVars, vals >>

\* nextInt(&r) by the owner of r
NextIntCall(k) ==
  /\ prng.call = << >>
  /\ k \in Randoms
  /\ prng.gen[k].phase = "ready"
  /\ Len(prng.gen[k].out) < MaxDraws
  /\ prng' = [prng EXCEPT !.gen[k] =
                [Drawn(@) EXCEPT !.out = Append(@, nextInt(prng.gen[k]).value)]]
  /\ UNCHANGED << programVars, vals >>

\* clearState(it), entered: MyRandom mainRandom = initMyRandom(MAIN_RANDOM_START_SEED + iter)
ClearStateCall(it) ==
  /\ prng.call = << >>
  /\ prng.gen = << >>
  /\ Len(prng.done) < MaxCalls
  /\ \E g \in Garbage :
       prng' = [prng EXCEPT !.gen = << Declare(MAIN_RANDOM_START_SEED + it, g) >>,
                            !.call = << it, 0 >>]
  /\ UNCHANGED << programVars, vals >>

\* vals[i] = nextInt(&mainRandom); ++i
ClearStateStore ==
  /\ prng.call # << >>
  /\ prng.gen[1].phase = "ready"
  /\ prng.call[2] < VALS_SIZE
  /\ vals' = [vals EXCEPT ![prng.call[2]] = AsInt(nextInt(prng.gen[1]).value)]
  /\ prng' = [prng EXCEPT !.gen[1] = Drawn(@), !.call[2] = @ + 1]
  /\ UNCHANGED programVars

\* clearState returns, mainRandom with it
ClearStateReturn ==
  /\ prng.call # << >>
  /\ prng.gen[1].phase = "ready"
  /\ prng.call[2] >= VALS_SIZE
  /\ prng' = [prng EXCEPT !.gen = << >>, !.call = << >>,
                          !.done = Append(@, << prng.call[1], vals >>)]
  /\ UNCHANGED << programVars, vals >>

InitMyRandomNext ==
  \/ \E k \in Ids : InitMyRandomFill(k)
  \/ \E k \in Ids : InitMyRandomDraw(k)
  \/ \E k \in Ids : InitMyRandomReturn(k)

\* Generators made by initMyRandom and drawn from by their owners, in any order.
NextRandom ==
  \/ \E seed \in Seeds : NewRandom(seed)
  \/ InitMyRandomNext
  \/ \E k \in Ids : NextIntCall(k)

SpecRandom == Init /\ [][NextRandom]_vars

\* Calls of clearState, one after the other, with any trial numbers.
NextClear ==
  \/ \E it \in 0 .. TEST_ITERS - 1 : ClearStateCall(it)
  \/ InitMyRandomNext
  \/ ClearStateStore
  \/ ClearStateReturn

SpecClear == Init /\ [][NextClear]_vars

----------------------------------------------------------------------------
(* Properties *)

TrueFlags(f) == Cardinality({i \in Idx : f[i]})
Written == Cardinality({i \in Idx : writes[i] > 0})
AfterJoinWriter == pcMain \in {"joinR", "waitE1", "waitE2", "destroy", "print"}
AfterJoinReader == pcMain \in {"waitE1", "waitE2", "destroy", "print"}
\* the step is one round of checkVals for slot rK
CheckValsStep == pcR = "check" /\ (rK' # rK \/ pcR' # "check")

\* C1 (SpecSC): with atomic, sequentially consistent accesses to vals, every
\* change counter is 0 or 1 in every reachable state of every trial and the
\* reader never reaches the fatal path of checkVals.
C1_DetectorSound ==
  /\ \A i \in Idx : changedTimes[i] \in {0, 1}
  /\ pcR # "fatal"
  /\ ~ENABLED Fatal
  /\ \A k \in 1 .. Len(err) : err[k] # << "UB was caught!" >>

\* the second trial's reader has made all its detector passes and one of them
\* counted the single change of a slot the writer wrote
C1_Witness ==
  /\ iter = 1 /\ pcR = "loop" /\ rI = READER_ITERS
  /\ \E i \in Idx : changedTimes[i] = 1 /\ writes[i] = 1

\* C2, as claimed: when within an iteration of the reader's act loop a slot is
\* assigned, the act loop's read of it sees the new value (set, read) and the
\* detector pass of that iteration reads the slot's original value again
\* (reset, read again), the detector reports a change count above 1 and takes
\* the fatal path.
C2_Original ==
  [][ (CheckValsStep /\ rK = readIndex /\ rK \in fresh /\ read # vals0[rK]
         /\ v' = vals0[rK])
        => (pcR' = "fatal" /\ changedTimes'[rK] > 1) ]_vars

\* C2, amended: when a detector pass has recorded a slot's change to a new
\* value (count 1, snapshot the new value) and a later pass of the trial reads
\* the slot's original value again, the count rises above 1 and the reader takes
\* the fatal path.
C2_Amended ==
  [][ (CheckValsStep /\ changedTimes[rK] = 1 /\ lastValsScan[rK] # vals0[rK]
         /\ v' = vals0[rK])
        => (pcR' = "fatal" /\ changedTimes'[rK] > 1) ]_vars

C2_Witness ==
  /\ pcR = "fatal"
  /\ changedTimes[rK] = 2
  /\ lastValsScan[rK] # vals0[rK]
  /\ v = vals0[rK]

\* C3: in the act phase of a role the number of set flags of that role equals
\* the number of indices it has selected so far (so every selection marked an
\* index whose flag was false), and at the end of the trial it equals
\* READER_ITERS, resp. WRITER_ITERS.
C3_SamplingWithoutReplacement ==
  /\ pcR = "loop" => TrueFlags(wasRead) = rI
  /\ pcR \in {"check", "fatal"} => TrueFlags(wasRead) = rI + 1
  /\ (pcR = "term" \/ (pcR = "none" /\ AfterJoinReader)) => TrueFlags(wasRead) = READER_ITERS
  /\ pcW = "loop" => TrueFlags(wasWritten) = wI
  /\ (pcW = "term" \/ (pcW = "none" /\ AfterJoinWriter)) => TrueFlags(wasWritten) = WRITER_ITERS

\* both workers of the second trial have returned
C3_Witness ==
  /\ iter = 1 /\ pcR = "term" /\ pcW = "term"
  /\ TrueFlags(wasRead) = READER_ITERS /\ TrueFlags(wasWritten) = WRITER_ITERS

\* the writes to vals counted per slot and against the writer's progress
C4_State ==
  /\ \A i \in Idx : writes[i] <= 1
  /\ pcW \in {"wait", "loop", "term"} => \A i \in Idx : (writes[i] = 1) = wasWritten[i]
  /\ pcW = "loop" => Written = wI
  /\ (pcW = "term" \/ (pcW = "none" /\ AfterJoinWriter)) => Written = WRITER_ITERS
  /\ Written <= WRITER_ITERS /\ WRITER_ITERS <= VALS_SIZE

\* which steps assign a slot of vals
C4_Step ==
  /\ \A i \in Idx :
       vals'[i] # vals[i] =>
         \/ pcMain = "clear" /\ pcMain' = "init"
         \/ pcW = "loop" /\ ~wasWritten[i] /\ wasWritten'[i]
  /\ \A i \in Idx :
       writes'[i] > writes[i] => pcW = "loop" /\ ~wasWritten[i] /\ wasWritten'[i]

\* C4: between clearState and the join every slot of vals is assigned at most
\* once; vals changes only in clearState or in a writer step that has just set
\* the slot's wasWritten flag; a finished writer has made WRITER_ITERS writes,
\* and never more than VALS_SIZE.
C4_SingleWrite == []C4_State /\ [][C4_Step]_vars

\* the writer of the second trial has returned after WRITER_ITERS writes
C4_Witness == iter = 1 /\ pcW = "term" /\ Written = WRITER_ITERS

\* C5, as claimed: once checkVals has found a counter above 1 no other thread
\* takes a step: the writer writes nothing more and main does not move.
C5_Original ==
  [][ pcR = "fatal" =>
        (writerVars' = writerVars /\ vals' = vals /\ mainVars' = mainVars /\ sema' = sema) ]_vars

\* where main and stderr are when the reader is on the fatal path
C5_State ==
  /\ exitStatus \in {-1, 0}
  /\ pcR = "fatal" =>
       /\ pcMain \in {"joinW", "joinR"}
       /\ \A k \in 1 .. Len(err) : err[k][1] # "Iteration finished"
  /\ (pcR = "fatal" /\ ~Running) =>
       /\ exitStatus = 0
       /\ Len(err) > 0 /\ err[Len(err)] = << "UB was caught!" >>
  /\ \A k \in 1 .. Len(err) :
       err[k] = << "UB was caught!" >> => (k = Len(err) /\ pcR = "fatal" /\ ~Running)

\* what a step does when the reader is on the fatal path or the process is gone
C5_Step ==
  /\ ~Running => UNCHANGED vars
  /\ pcR = "fatal" =>
       /\ readerVars' = readerVars
       /\ iter' = iter
       /\ pcMain' \in {"joinW", "joinR"}
       /\ exitStatus' # exitStatus =>
            (exitStatus' = 0 /\ err' = Append(err, << "UB was caught!" >>))

\* C5, amended: a reader that has found a counter above 1 does nothing but emit
\* "UB was caught!" and exit the process with code 0; once the process has
\* exited no thread takes a step.  Until then the writer may still run and
\* main may join it, but main gets no further than pthread_join(reader): no
\* "Iteration N finished" line is emitted for the trial and no later trial
\* starts.
C5_FailFast == []C5_State /\ [][C5_Step]_vars

\* the process has exited on the fatal path while the writer was in its act loop
C5_Witness ==
  /\ pcR = "fatal" /\ ~Running /\ exitStatus = 0
  /\ pcW = "loop" /\ wI < WRITER_ITERS
  /\ pcMain = "joinW"

StartSemas == {"startReaderSema", "startWriterSema"}

\* C6: a worker is in its act loop only after its start semaphore was posted
\* and waited on; a start semaphore is posted only by main after both
\* pthread_setaffinity_np calls and the settle delay; per trial each start
\* semaphore is posted at most once and waited on at most once, never more
\* often than posted, and exactly once each when the trial is joined.
C6_StartGate ==
  /\ \A s \in StartSemas : sema[s].posts <= 1 /\ sema[s].waits <= sema[s].posts
  /\ pcR \in {"loop", "check", "fatal", "term"} =>
       (sema["startReaderSema"].posts = 1 /\ sema["startReaderSema"].waits = 1)
  /\ pcR \in {"prep", "wait"} => sema["startReaderSema"].waits = 0
  /\ pcW \in {"loop", "term"} =>
       (sema["startWriterSema"].posts = 1 /\ sema["startWriterSema"].waits = 1)
  /\ pcW \in {"prep", "wait"} => sema["startWriterSema"].waits = 0
  /\ pcMain \in {"init", "createR", "createW", "pin", "postR"} =>
       (\A s \in StartSemas : sema[s].init => sema[s].posts = 0)
  /\ pcMain = "postW" =>
       (sema["startReaderSema"].posts = 1 /\ sema["startWriterSema"].posts = 0)
  /\ AfterJoinReader =>
       (\A s \in StartSemas : sema[s].posts = 1 /\ sema[s].waits = 1)

\* the reader of the second trial is in its act loop while the writer's start
\* semaphore has not been posted yet
C6_Witness ==
  /\ iter = 1 /\ pcMain = "postW"
  /\ pcR = "check" /\ pcW = "wait"

\* C7, as claimed: when main is about to release the start gate both workers
\* wait on their start semaphore and the bookkeeping arrays are cleared, with
\* lastValsScan a copy of vals; so no slot is written while the reader still
\* takes its baseline snapshot.
C7_PreparedAtRelease ==
  /\ pcMain = "postR" =>
       /\ pcR = "wait" /\ pcW = "wait"
       /\ \A i \in Idx : /\ ~wasRead[i] /\ ~wasWritten[i]
                         /\ changedTimes[i] = 0 /\ lastValsScan[i] = vals[i]
  /\ pcR = "prep" => \A i \in Idx : writes[i] = 0

\* C8: every worker posts endSema once, when it returns; main passes the joins
\* only when both workers have returned, so its first sem_wait(&endSema) finds
\* the value 2 and its second the value 1; no worker exists while main is
\* between the end of one trial and the creation of the next trial's workers.
Returned(pc, joined) == IF pc = "term" \/ (pc = "none" /\ joined) THEN 1 ELSE 0

C8_Joining ==
  /\ sema["endSema"].init =>
       sema["endSema"].posts = Returned(pcR, AfterJoinReader) + Returned(pcW, AfterJoinWriter)
  /\ pcMain = "joinR" => pcW = "none"
  /\ AfterJoinReader => (pcR = "none" /\ pcW = "none")
  /\ pcMain = "waitE1" => sema["endSema"].val = 2
  /\ pcMain = "waitE2" => sema["endSema"].val = 1
  /\ pcMain \in {"clear", "init", "createR", "done"} => (pcR = "none" /\ pcW = "none")

\* main of the second trial has joined both workers and is about to drain endSema
C8_Witness == iter = 1 /\ pcMain = "waitE1" /\ sema["endSema"].val = 2

\* C9: the semaphores are initialised with value 0 before a worker exists and
\* stay initialised while a worker exists or main is to post, wait or destroy;
\* at the sem_destroy calls every value is 0 with as many waits as posts and no
\* thread is left to wait; between trials no semaphore is initialised.
C9_SemaLifecycle ==
  /\ pcMain = "createR" =>
       \A s \in SemNames : sema[s].init /\ sema[s].val = 0 /\ sema[s].posts = 0
                             /\ sema[s].waits = 0
  /\ (pcR # "none" \/ pcW # "none"
        \/ pcMain \in {"createR", "createW", "pin", "postR", "postW", "joinW", "joinR",
                       "waitE1", "waitE2", "destroy"}) =>
       \A s \in SemNames : sema[s].init
  /\ \A s \in SemNames : sema[s].val >= 0 /\ sema[s].val = sema[s].posts - sema[s].waits
  /\ pcMain = "destroy" =>
       /\ \A s \in SemNames : sema[s].val = 0 /\ sema[s].posts = sema[s].waits
       /\ pcR = "none" /\ pcW = "none"
  /\ pcMain \in {"print", "clear", "init", "done"} => \A s \in SemNames : ~sema[s].init

\* main is about to destroy the semaphores of the second trial
C9_Witness ==
  /\ iter = 1 /\ pcMain = "destroy"
  /\ sema["endSema"].posts = 2 /\ sema["endSema"].waits = 2

Globals == {"vals", "lastValsScan", "changedTimes", "wasRead", "wasWritten", "savedRead",
            "readRandom", "writeRandom", "iter"}
ReaderOwned == {"wasRead", "lastValsScan", "changedTimes", "readRandom", "savedRead"}
WriterOwned == {"wasWritten", "writeRandom"}
\* two accesses to x by different threads, one of them a write, neither ordered
\* before the other by thread creation or join
RaceOn(x) ==
  \E a, b \in acc : a[1] = x /\ b[1] = x /\ a[2] # b[2] /\ (a[3] = "w" \/ b[3] = "w")

\* C10: no global other than vals is ever accessed by two threads in conflict;
\* the reader's bookkeeping, generator and savedRead are written by the reader
\* only, the writer's flags and generator by the writer only, and main reads
\* savedRead only when it has joined the reader.
C10_OnlyValsRaced ==
  /\ \A a \in acc : a[1] \in Globals
  /\ \A a, b \in acc :
       (a[1] = b[1] /\ a[1] # "vals" /\ a[2] # b[2]) => (a[3] = "r" /\ b[3] = "r")
  /\ \A a \in acc : (a[1] \in ReaderOwned /\ a[3] = "w") => a[2] = "reader"
  /\ \A a \in acc : (a[1] \in WriterOwned /\ a[3] = "w") => a[2] = "writer"
  /\ \A a \in acc : (a[1] \in ReaderOwned \cup WriterOwned) => a[2] # "main"
  /\ pcMain = "print" => (pcR = "none" /\ pcW = "none")

\* reader and writer of the second trial have both accessed vals, unordered
C10_Witness == iter = 1 /\ RaceOn("vals") /\ pcR = "check" /\ pcW = "loop"

\* C11 (SpecFair): when the detector never triggers and scheduling is fair, the
\* program runs the trials iter = 0 .. TEST_ITERS - 1 in order, each to its
\* end, and then returns 0: no thread blocks forever, and at every start of an
\* iteration of an act loop an untouched index exists for the selection loop.
C11_State ==
  /\ pcR = "loop" /\ rI < READER_ITERS => \E x \in RandomIndices : ~wasRead[x]
  /\ pcW = "loop" /\ wI < WRITER_ITERS => \E x \in RandomIndices : ~wasWritten[x]
  /\ iter \in 0 .. TEST_ITERS
  /\ pcMain # "done" /\ pcMain # "clear" => iter < TEST_ITERS
  /\ pcMain = "done" => iter = TEST_ITERS /\ exitStatus = 0
  /\ exitStatus # -1 => pcMain = "done"

C11_Step ==
  /\ iter' # iter => pcMain = "print" /\ iter' = iter + 1 /\ pcMain' = "clear"
  /\ pcMain' = "done" /\ pcMain # "done" => pcMain = "clear" /\ iter = TEST_ITERS

C11_Done == pcMain = "done" /\ exitStatus = 0 /\ iter = TEST_ITERS

C11_Termination == []C11_State /\ [][C11_Step]_vars /\ <>C11_Done

\* main has returned after the last trial, both end signals of it consumed
C11_Witness == C11_Done /\ pcR = "none" /\ pcW = "none" /\ sema["endSema"].waits = 2

Lines(kind) == {n \in 1 .. Len(err) : err[n][1] = kind}

\* C12 (Spec): a completed trial N has emitted exactly one "Reader has finished"
\* and one "Writer has finished" line, in either order, both before its
\* "Iteration N finished (savedRead)" line and, being emitted by workers that
\* exist only within trial N, after the line of trial N - 1; the iteration
\* lines carry N = 0, 1, 2, ... in this order.
C12_State ==
  /\ Cardinality(Lines("Reader has finished")) <= 1
  /\ Cardinality(Lines("Writer has finished")) <= 1
  /\ Cardinality(Lines("Iteration finished")) <= 1
  /\ pcMain \in {"waitE1", "waitE2", "destroy", "print"} =>
       /\ Len(err) = 2
       /\ Lines("Reader has finished") \cup Lines("Writer has finished") = {1, 2}
  /\ Lines("Iteration finished") # {} =>
       /\ Lines("Iteration finished") = {3}
       /\ Lines("Reader has finished") \cup Lines("Writer has finished") = {1, 2}
       /\ err[3][2] = iter - 1
       /\ pcMain \in {"clear", "done"}

C12_Step ==
  /\ Len(err') > Len(err) =>
       /\ err' = Append(err, err'[Len(err')])
       /\ Lines("Iteration finished") = {}
       /\ err'[Len(err')][1] \in {"Reader has finished", "Writer has finished"} =>
            pcMain \in {"postW", "joinW", "joinR"} /\ pcMain' = pcMain /\ iter' = iter
       /\ err'[Len(err')][1] = "Iteration finished" =>
            /\ pcMain = "print"
            /\ err'[Len(err')] = << "Iteration finished", iter, savedRead >>
            /\ iter' = iter + 1
  /\ Len(err') < Len(err) => pcMain = "clear" /\ iter' = iter /\ err' = << >>
  /\ Len(err') = Len(err) => err' = err

C12_LineOrder == []C12_State /\ [][C12_Step]_vars

\* the second trial has emitted its three lines, the writer's first
C12_Witness ==
  /\ iter = 2
  /\ Len(err) = 3
  /\ err[1][1] = "Writer has finished"
  /\ err[2][1] = "Reader has finished"
  /\ err[3][1] = "Iteration finished" /\ err[3][2] = 1

RECURSIVE FoldFrom(_, _)
\* the accumulator after the reads rs, in their order, starting from a
FoldFrom(a, rs) == IF rs = << >> THEN a ELSE FoldFrom(Fold(a, Head(rs)), Tail(rs))

\* the reader of this trial has executed savedRead = 0
Seeded ==
  \/ pcR \in {"wait", "loop", "check", "fatal", "term"}
  \/ pcR = "none" /\ AfterJoinReader

\* C15 (Spec): from the reader's savedRead = 0 on, savedRead is the fold, from
\* 0 and in selection order, of the values the reader has read in this trial
\* with acc' = (r + r - 1) + (acc - 1 + r) * r; at the trial's end it has
\* folded READER_ITERS values and the iteration line prints this fold, whatever
\* savedRead the previous trial left.
C15_Accumulator ==
  /\ Seeded => savedRead = FoldFrom(0, reads)
  /\ ~Seeded /\ pcMain \notin {"clear", "done"} => reads = << >>
  /\ pcR = "loop" => Len(reads) = rI
  /\ pcR = "check" => Len(reads) = rI + 1 /\ reads[rI + 1] = read
  /\ pcR = "term" \/ (pcR = "none" /\ AfterJoinReader) => Len(reads) = READER_ITERS
  /\ Lines("Iteration finished") # {} =>
       /\ Len(reads) = READER_ITERS
       /\ err[Len(err)] = << "Iteration finished", iter - 1, FoldFrom(0, reads) >>

\* the second trial has printed the fold of its reads 1, 0, 1
C15_Witness ==
  /\ iter = 2
  /\ Lines("Iteration finished") # {}
  /\ reads = << 1, 0, 1 >>
  /\ err[Len(err)][3] = 0

\* the slots a call of checkVals scans
Scanned == 0 .. CHECK_FIRST_VALS - 1

\* C16 (Spec): a call of checkVals scans the slots 0 .. CHECK_FIRST_VALS - 1 in
\* ascending order with one load of vals[i] per slot. If the value loaded
\* differs from lastValsScan[i], changedTimes[i] grows by exactly 1 and, unless
\* it then exceeds 1 (the fatal path), lastValsScan[i] becomes the value loaded;
\* if it is equal, neither changes. No other slot's bookkeeping changes, and
\* vals, wasRead, wasWritten and savedRead are never written. A call that
\* returns with no store to vals since it began and every load returning the
\* value stored leaves lastValsScan[i] = vals[i] for every scanned i.
C16_Step ==
  /\ pcR = "loop" /\ pcR' = "check" => rK' = 0
  /\ CheckValsStep =>
       /\ rK \in Scanned
       /\ v' \in {vals[rK], vals0[rK]}
       /\ \A j \in Idx \ {rK} :
            changedTimes'[j] = changedTimes[j] /\ lastValsScan'[j] = lastValsScan[j]
       /\ v' # lastValsScan[rK] =>
            /\ changedTimes'[rK] = changedTimes[rK] + 1
            /\ IF changedTimes'[rK] > 1
                 THEN pcR' = "fatal" /\ rK' = rK /\ lastValsScan'[rK] = lastValsScan[rK]
                 ELSE pcR' # "fatal" /\ lastValsScan'[rK] = v'
       /\ v' = lastValsScan[rK] =>
            /\ changedTimes'[rK] = changedTimes[rK]
            /\ lastValsScan'[rK] = lastValsScan[rK]
            /\ pcR' # "fatal"
       /\ UNCHANGED << vals, wasRead, wasWritten, savedRead >>
       /\ pcR' = "check" => rK' = rK + 1 /\ rK' \in Scanned
       /\ pcR' = "loop" => rK = CHECK_FIRST_VALS - 1
       /\ pcR' = "loop" /\ passClean /\ v' = vals[rK] =>
            \A j \in Scanned : lastValsScan'[j] = vals'[j]
  /\ pcR = "check" /\ ~CheckValsStep =>
       UNCHANGED << lastValsScan, changedTimes, wasRead, savedRead >>

C16_DetectorPass == [][C16_Step]_vars

\* a call of checkVals has returned, undisturbed, after recording the one
\* change of a slot the writer had written
C16_Witness ==
  /\ iter = 1 /\ pcR = "loop" /\ rI = 1 /\ passes = 1
  /\ \E i \in Scanned :
       changedTimes[i] = 1 /\ lastValsScan[i] = vals[i] /\ vals[i] # vals0[i]
  /\ \A i \in Scanned : lastValsScan[i] = vals[i]

\* the act iterations below n in which checkVals is called
Cadence(n) == (n + CHECK_EACH_ITER - 1) \div CHECK_EACH_ITER

\* C17 (Spec): the act loop calls checkVals in exactly the iterations i with
\* i % CHECK_EACH_ITER = 0, the first being i = 0, each call after the
\* iteration's read of vals and its update of savedRead; a reader that has
\* returned has made ceil(READER_ITERS / CHECK_EACH_ITER) calls and makes no
\* further one, so a store after the last call is never scanned.
C17_State ==
  /\ pcR = "check" => rI % CHECK_EACH_ITER = 0 /\ passes = Cadence(rI) + 1
  /\ pcR = "loop" => passes = Cadence(rI)
  /\ pcR = "term" \/ (pcR = "none" /\ AfterJoinReader) => passes = Cadence(READER_ITERS)
  /\ pcR = "wait" => passes = 0

C17_Step ==
  /\ pcR # "check" /\ pcR' = "check" =>
       /\ pcR = "loop" /\ rI % CHECK_EACH_ITER = 0 /\ rI' = rI
       /\ passes' = passes + 1
       /\ reads' = Append(reads, read')
       /\ savedRead' = Fold(savedRead, read')
       /\ wasRead'[readIndex'] /\ ~wasRead[readIndex']
  /\ pcR = "loop" /\ pcR' = "loop" /\ rI' # rI =>
       rI % CHECK_EACH_ITER # 0 /\ rI' = rI + 1 /\ passes' = passes
  /\ passes' # passes => (pcR # "check" /\ pcR' = "check") \/ passes' = 0
  /\ pcR = "term" \/ (pcR = "none" /\ AfterJoinReader) =>
       UNCHANGED << lastValsScan, changedTimes, passes >>

C17_Cadence == []C17_State /\ [][C17_Step]_vars

\* the reader has returned after its last call of checkVals, and a slot
\* the writer has written since is recorded as unchanged
C17_Witness ==
  /\ iter = 1 /\ pcR = "term" /\ passes = Cadence(READER_ITERS)
  /\ \E i \in Scanned :
       writes[i] = 1 /\ vals[i] # vals0[i] /\ changedTimes[i] = 0 /\ lastValsScan[i] = vals0[i]

\* C19 (SpecRemat): with the load of vals[i] in checkVals done twice, once for
\* the comparison and once for the snapshot update, memory coherent per
\* location and the writer storing to each slot at most once per trial, no
\* change counter exceeds 1 and the fatal path is never taken.
C19_RematerializationAlone ==
  /\ \A i \in Idx : changedTimes[i] \in {0, 1}
  /\ pcR # "fatal"
  /\ \A i \in Idx : writes[i] <= 1
  /\ exitStatus \in {-1, 0}

\* the second trial is between the two loads of a slot whose store the first
\* load has returned
C19_Witness ==
  /\ iter = 1 /\ pcR = "reload"
  /\ changedTimes[rK] = 1 /\ writes[rK] = 1
  /\ v = vals[rK] /\ v # vals0[rK] /\ lastValsScan[rK] = vals0[rK]

\* C13 (SpecClear): calls of clearState with the same trial number leave the
\* same contents in vals, whatever vals and the stack held before; the
\* contents are those of the call's own draws, and clearState writes no
\* variable of the program but vals.
C13_State ==
  /\ \A a, b \in 1 .. Len(prng.done) :
       prng.done[a][1] = prng.done[b][1] => prng.done[a][2] = prng.done[b][2]
  /\ prng.call = << >> /\ prng.done # << >> => vals = prng.done[Len(prng.done)][2]

C13_Step ==
  /\ UNCHANGED programVars
  /\ vals' # vals =>
       /\ prng.call # << >> /\ prng'.call = << prng.call[1], prng.call[2] + 1 >>
       /\ \A i \in Idx \ {prng.call[2]} : vals'[i] = vals[i]
  /\ Len(prng'.done) > Len(prng.done) => prng.call[2] = VALS_SIZE /\ vals' = vals

C13_ResetIdempotent == []C13_State /\ [][C13_Step]_vars

\* clearState has returned twice for trial 1, the second call having found
\* in vals what the first had left
C13_Witness ==
  /\ Len(prng.done) = 2
  /\ prng.done[1][1] = 1 /\ prng.done[2][1] = 1
  /\ vals = prng.done[1][2]
  /\ vals # [i \in Idx |-> 0]

\* the outputs two generators have both produced
Common(a, b) == 1 .. (IF Len(a.out) < Len(b.out) THEN Len(a.out) ELSE Len(b.out))

\* C14 (SpecRandom): two generators made by initMyRandom with the same seed
\* return the same values, draw for draw, whatever their memory held before
\* and however their owners' calls interleave, and are in the same state after
\* the same number of draws; a step of one generator changes no other.
C14_State ==
  \A a, b \in Randoms :
    prng.gen[a].seed = prng.gen[b].seed /\ prng.gen[a].phase = "ready"
      /\ prng.gen[b].phase = "ready" =>
        /\ \A n \in Common(prng.gen[a], prng.gen[b]) :
             prng.gen[a].out[n] = prng.gen[b].out[n]
        /\ Len(prng.gen[a].out) = Len(prng.gen[b].out) => prng.gen[a] = prng.gen[b]

C14_Step ==
  \A a, b \in Randoms :
    a # b /\ prng'.gen[a] # prng.gen[a] => prng'.gen[b] = prng.gen[b]

C14_Determinism == []C14_State /\ [][C14_Step]_vars

\* two generators of the same seed have each been drawn from MaxDraws times
C14_Witness ==
  /\ Len(prng.gen) = 2
  /\ prng.gen[1].seed = prng.gen[2].seed
  /\ Len(prng.gen[1].out) = MaxDraws /\ Len(prng.gen[2].out) = MaxDraws

\* the step is a call of nextInt on generator k
NextIntStep(k) ==
  /\ prng.gen[k].phase # "declared"
  /\ k \in 1 .. Len(prng'.gen)
  /\ \/ prng'.gen[k].drawn # prng.gen[k].drawn
     \/ Len(prng'.gen[k].out) # Len(prng.gen[k].out)

\* C18 (SpecRandom): from initMyRandom's m_index = 0 on, m_index is in
\* 0 .. MT_LEN - 1 and so are i2 = (i + 1) mod MT_LEN and
\* j = (i + MT_IA) mod MT_LEN; a call of nextInt writes the buffer word at
\* the old m_index and no other, and advances m_index by 1 modulo MT_LEN;
\* initMyRandom makes exactly MT_LEN * 100 calls and returns with m_index = 0.
C18_State ==
  \A k \in Randoms :
    LET g == prng.gen[k] IN
    g.phase # "declared" =>
      /\ g.m_index \in Slots
      /\ Index2(g.m_index) = (g.m_index + 1) % MT_LEN
      /\ IndexJ(g.m_index) = (g.m_index + MT_IA) % MT_LEN
      /\ g.phase = "warm" => g.drawn <= MT_LEN * 100 /\ g.out = << >>
      /\ g.phase = "ready" => g.drawn = MT_LEN * 100
      /\ g.phase = "ready" /\ g.out = << >> => g.m_index = 0
      /\ g.m_index = (g.drawn + Len(g.out)) % MT_LEN

C18_Step ==
  \A k \in Randoms :
    /\ NextIntStep(k) =>
         /\ prng'.gen[k].m_index = (prng.gen[k].m_index + 1) % MT_LEN
         /\ \A n \in Slots \ {prng.gen[k].m_index} :
              prng'.gen[k].m_buffer[n] = prng.gen[k].m_buffer[n]
         /\ prng'.gen[k].m_buffer[prng.gen[k].m_index] = Twist(prng.gen[k])
         /\ prng'.gen[k].drawn + Len(prng'.gen[k].out)
              = prng.gen[k].drawn + Len(prng.gen[k].out) + 1
    /\ prng.gen[k].phase = "declared" /\ prng'.gen[k] # prng.gen[k] =>
         /\ prng'.gen[k].m_index = 0 /\ prng'.gen[k].drawn = 0
         /\ \A n \in Slots : prng'.gen[k].m_buffer[n] = Word(prng.gen[k].seed)
    /\ prng.gen[k].phase = "warm" /\ prng'.gen[k].phase = "ready" =>
         prng.gen[k].drawn = MT_LEN * 100 /\ prng'.gen[k].m_index = 0

C18_Cursor == []C18_State /\ [][C18_Step]_vars

\* initMyRandom has just returned a generator
C18_Witness ==
  \E k \in Randoms :
    /\ prng.gen[k].phase = "ready" /\ prng.gen[k].out = << >>
    /\ prng.gen[k].drawn = MT_LEN * 100 /\ prng.gen[k].m_index = 0
    /\ \E n \in Slots : prng.gen[k].m_buffer[n] # Word(prng.gen[k].seed)


============================================================================
